---------------------------- MODULE Spec2Model ----------------------------
(***************************************************************************)
(* A model of src/app.py (cz-name-checker): the name normalizer, the ARES  *)
(* registry client with its retry loop, the multi-query search, the        *)
(* similarity scorer and the two generation modes.                         *)
(*                                                                         *)
(* Strings are sequences of characters; a character is a one-letter string *)
(* ("a", ".", " "), and a non-ASCII character is written by its name       *)
(* ("c_caron" is U+010D, "combining_caron" is U+030C, "bullet" is U+2022). *)
(***************************************************************************)
EXTENDS Integers, Sequences, FiniteSets, TLC

(***************************************************************************)
(* Characters and the string primitives of Python that the code uses.      *)
(***************************************************************************)
AsciiUpper ==
  <<"A","B","C","D","E","F","G","H","I","J","K","L","M",
    "N","O","P","Q","R","S","T","U","V","W","X","Y","Z">>

AsciiLower ==
  <<"a","b","c","d","e","f","g","h","i","j","k","l","m",
    "n","o","p","q","r","s","t","u","v","w","x","y","z">>

Digits == {"0","1","2","3","4","5","6","7","8","9"}

Range(f) == {f[i] : i \in DOMAIN f}

\* [0-9a-zA-Z] of the regular expression in norm_core
IsAsciiAlnum(c) == c \in Range(AsciiUpper) \cup Range(AsciiLower) \cup Digits

\* \s of the regular expression, and the separators of str.split() / str.strip()
IsSpace(c) == c \in {" ", "\t", "\n"}

\* the accented letters of the model alphabet: <<upper, lower, base of lower, mark, base of upper>>
Accented ==
  { <<"A_acute", "a_acute", "a", "combining_acute", "A">>,
    <<"C_caron", "c_caron", "c", "combining_caron", "C">>,
    <<"Y_acute", "y_acute", "y", "combining_acute", "Y">> }

\* unicodedata.category(ch) == "Mn"
IsMn(c) == c \in {"combining_acute", "combining_caron"}

\* str.lower() on one character
lower_char(c) ==
  IF c \in Range(AsciiUpper)
    THEN AsciiLower[CHOOSE i \in DOMAIN AsciiUpper : AsciiUpper[i] = c]
    ELSE IF \E a \in Accented : a[1] = c
           THEN (CHOOSE a \in Accented : a[1] = c)[2]
           ELSE c

str_lower(s) == [i \in 1..Len(s) |-> lower_char(s[i])]

\* unicodedata.normalize("NFD", ch) for one character
nfd_char(c) ==
  IF \E a \in Accented : a[2] = c
    THEN LET a == CHOOSE b \in Accented : b[2] = c IN <<a[3], a[4]>>
    ELSE IF \E a \in Accented : a[1] = c
           THEN LET a == CHOOSE b \in Accented : b[1] = c IN <<a[5], a[4]>>
           ELSE <<c>>

RECURSIVE nfd(_)
nfd(s) == IF s = <<>> THEN <<>> ELSE nfd_char(Head(s)) \o nfd(Tail(s))

SetMin(S) == CHOOSE m \in S : \A k \in S : m <= k
SetMax(S) == CHOOSE m \in S : \A k \in S : m >= k

\* s.strip(chars): drop the characters of `chars` from both ends
strip_chars(s, chars) ==
  LET keep == {i \in 1..Len(s) : s[i] \notin chars}
  IN  IF keep = {} THEN <<>> ELSE SubSeq(s, SetMin(keep), SetMax(keep))

\* s.strip()
str_strip(s) ==
  LET keep == {i \in 1..Len(s) : ~IsSpace(s[i])}
  IN  IF keep = {} THEN <<>> ELSE SubSeq(s, SetMin(keep), SetMax(keep))

\* s.replace(old, new): leftmost, non-overlapping occurrences
RECURSIVE str_replace(_, _, _)
str_replace(s, old, new) ==
  IF Len(s) < Len(old) THEN s
  ELSE IF SubSeq(s, 1, Len(old)) = old
         THEN new \o str_replace(SubSeq(s, Len(old) + 1, Len(s)), old, new)
         ELSE <<Head(s)>> \o str_replace(Tail(s), old, new)

\* s.split(): the maximal runs of non-whitespace characters
RECURSIVE str_split_from(_, _)
str_split_from(s, cur) ==
  IF s = <<>> THEN (IF cur = <<>> THEN <<>> ELSE <<cur>>)
  ELSE IF IsSpace(Head(s))
         THEN (IF cur = <<>> THEN <<>> ELSE <<cur>>) \o str_split_from(Tail(s), <<>>)
         ELSE str_split_from(Tail(s), Append(cur, Head(s)))

str_split(s) == str_split_from(s, <<>>)

\* " ".join(parts)
RECURSIVE str_join(_)
str_join(parts) ==
  IF parts = <<>> THEN <<>>
  ELSE IF Len(parts) = 1 THEN parts[1]
  ELSE parts[1] \o <<" ">> \o str_join(Tail(parts))

(***************************************************************************)
(* NORMALIZATION                                                           *)
(***************************************************************************)
LEGAL_SUFFIXES ==
  << <<"s",".","r",".","o",".">>,
     <<"s","r","o">>,
     <<"a",".","s",".">>,
     <<"a","s">>,
     <<"k",".","s",".">>,
     <<"k","s">>,
     <<"v",".","o",".","s",".">>,
     <<"v","o","s">>,
     <<"s","p","o","l","."," ","s"," ","r",".","o",".">>,
     <<"s","p","o","l"," ","s"," ","r"," ","o">> >>

GENERIC_WORDS ==
  { <<"c","z">>,
    <<"c","z","e","c","h">>,
    <<"p","r","a","h","a">>,
    <<"b","r","n","o">>,
    <<"p","l","z","e","n">>,
    <<"o","s","t","r","a","v","a">>,
    <<"g","r","o","u","p">>,
    <<"h","o","l","d","i","n","g">>,
    <<"s","o","l","u","t","i","o","n","s">>,
    <<"c","o","n","s","u","l","t","i","n","g">>,
    <<"s","y","s","t","e","m">>,
    <<"s","y","s","t","e","m","s">>,
    <<"t","e","c","h","n","o","l","o","g","y">>,
    <<"t","e","c","h","n","o","l","o","g","i","e","s">>,
    <<"s","e","r","v","i","c","e","s">>,
    <<"s","e","r","v","i","c","e">>,
    <<"s","t","u","d","i","o">>,
    <<"c","o","m","p","a","n","y">>,
    <<"c","o">>,
    <<"g","l","o","b","a","l">>,
    <<"i","n","t","e","r","n","a","t","i","o","n","a","l">>,
    <<"a","d","v","i","s","o","r","y">>,
    <<"a","d","v","i","s","e","r">>,
    <<"a","d","v","i","s","e","r","s">>,
    <<"m","e","d","i","a">>,
    <<"m","a","r","k","e","t","i","n","g">>,
    <<"a","g","e","n","c","y">>,
    <<"d","i","g","i","t","a","l">> }

\* "".join(ch for ch in NFD(s) if category(ch) != "Mn")
strip_diacritics(s) ==
  LET NotMn(c) == ~IsMn(c) IN SelectSeq(nfd(s), NotMn)

\* for suf in LEGAL_SUFFIXES: s = s.replace(suf, " ")   (suffixes k..last)
RECURSIVE remove_suffixes(_, _)
remove_suffixes(s, k) ==
  IF k > Len(LEGAL_SUFFIXES) THEN s
  ELSE remove_suffixes(str_replace(s, LEGAL_SUFFIXES[k], <<" ">>), k + 1)

\* re.sub(r"[^0-9a-zA-Z\s]", " ", s)
sub_non_alnum(s) ==
  [i \in 1..Len(s) |-> IF IsAsciiAlnum(s[i]) \/ IsSpace(s[i]) THEN s[i] ELSE " "]

norm_core(name) ==
  IF name = <<>> THEN <<>>
  ELSE LET s1 == str_strip(str_lower(name))
           s2 == strip_diacritics(s1)
           s3 == remove_suffixes(s2, 1)
           s4 == sub_non_alnum(s3)
           s5 == str_join(str_split(s4))
           NotGeneric(p) == p \notin GENERIC_WORDS
           parts == SelectSeq(str_split(s5), NotGeneric)
       IN  str_join(parts)

(***************************************************************************)
(* ARES SEARCH: the registry client.  One HTTP attempt ends in an outcome  *)
(* the environment chooses: an exception of requests.get (network error,   *)
(* timeout), of raise_for_status (non-2xx), of r.json() or of the walk over *)
(* the items (unparseable body), or a parsed body, the list of its items.  *)
(***************************************************************************)
MaxAttempts == 3      \* for attempt in range(3)
BaseDelay == 12       \* time.sleep(1.2 * ...), in tenths of a second

FailKinds == {"network", "timeout", "status", "badbody"}

\* a missing or empty "obchodniJmeno" (None or ""): falsy in `if of`
NoName == <<>>

Cesky_as == <<"C_caron","e","s","k","y_acute"," ","a",".","s",".">>
Cesky    == <<"C","e","s","k","y">>
Only_sro == <<"s",".","r",".","o",".">>
CES_KY   == <<"C","E","S"," ","K","Y">>
Terra    == <<"T","e","r","r","a">>

Item(jmeno, text, ico) ==
  [obchodniJmeno |-> jmeno, obchodniJmenoText |-> text, ico |-> ico]

\* the bodies the registry answers with
Body_cesky == <<Item(Cesky_as, NoName, "111"), Item(Cesky, NoName, "222")>>
Body_mixed == <<Item(Cesky, NoName, "222"), Item(Only_sro, NoName, "None"),
                Item(NoName, NoName, "333"), Item(NoName, CES_KY, "444")>>
Body_terra == <<Item(Terra, NoName, "555")>>

Bodies == {<<>>, Body_cesky, Body_mixed, Body_terra}

Outcomes ==
  [kind : FailKinds, body : {<<>>}] \cup [kind : {"ok"}, body : Bodies]

\* lines 76-82: the records of the items that carry a name
RECURSIVE parse_items(_)
parse_items(items) ==
  IF items = <<>> THEN <<>>
  ELSE LET it == Head(items)
           of == IF it.obchodniJmeno # NoName THEN it.obchodniJmeno
                 ELSE it.obchodniJmenoText
       IN  (IF of # NoName THEN <<[name |-> of, ico |-> it.ico]>> ELSE <<>>)
           \o parse_items(Tail(items))

RECURSIVE Pow2(_)
Pow2(k) == IF k = 0 THEN 1 ELSE 2 * Pow2(k - 1)

\* a delay that grows by the base delay instead of doubling
backoff_linear(attempt) == BaseDelay * (attempt + 1)

\* 1.2 * (2 ** attempt), in tenths of a second
backoff(attempt) == BaseDelay * Pow2(attempt)

\* the locals of ares_query on entry; `attempt` is the index of the next iteration
aq_begin ==
  [attempt |-> 0, last_err |-> "None", status |-> "running", out |-> <<>>,
   warnings |-> 0, slept |-> <<>>, gets |-> 0]

\* aq_attempt with an except clause that lets a parse failure through
aq_attempt_uncaught(q, o) ==
  IF o.kind = "ok"
    THEN [q EXCEPT !.gets = @ + 1, !.out = parse_items(o.body), !.status = "returned"]
    ELSE IF o.kind = "badbody"
      THEN [q EXCEPT !.gets = @ + 1, !.status = "raised"]
      ELSE [q EXCEPT !.gets = @ + 1, !.last_err = o.kind,
                     !.slept = Append(@, backoff(q.attempt)),
                     !.attempt = @ + 1]

\* one iteration of `for attempt in range(3)` whose HTTP attempt ends in outcome o
aq_attempt(q, o) ==
  IF o.kind = "ok"
    THEN [q EXCEPT !.gets = @ + 1, !.out = parse_items(o.body), !.status = "returned"]
    ELSE [q EXCEPT !.gets = @ + 1, !.last_err = o.kind,
                   !.slept = Append(@, backoff(q.attempt)),
                   !.attempt = @ + 1]

\* the loop is over: st.warning(...); return []
aq_exhausted(q) ==
  [q EXCEPT !.warnings = @ + 1, !.out = <<>>, !.status = "returned"]

\* the whole call, the k-th attempt ending in outcomes[k]
RECURSIVE aq_run(_, _)
aq_run(q, outcomes) ==
  IF q.status # "running" THEN q
  ELSE IF q.attempt >= MaxAttempts THEN aq_exhausted(q)
  ELSE aq_run(aq_attempt(q, outcomes[q.gets + 1]), outcomes)

ares_query(outcomes) == aq_run(aq_begin, outcomes)

(***************************************************************************)
(* ARES SEARCH: several query variants per candidate, merged and           *)
(* deduplicated by normalized core.                                        *)
(***************************************************************************)
\* lines 91-101: the query variants, in the order they are tried
search_queries(candidate) ==
  LET full == str_strip(candidate)
      core_words == str_split(norm_core(candidate))
  IN  <<full, strip_diacritics(full)>>
      \o (IF Len(core_words) >= 1 THEN <<core_words[1]>> ELSE <<>>)
      \o (IF Len(core_words) >= 2 THEN <<str_join(SubSeq(core_words, 1, 2))>> ELSE <<>>)

\* lines 115-120: keep the first record of every non-empty normalized core
RECURSIVE dedup_from(_, _, _)
dedup_from(hs, keys, acc) ==
  IF hs = <<>> THEN acc
  ELSE LET key == norm_core(Head(hs).name)
       IN  IF key # <<>> /\ key \notin keys
             THEN dedup_from(Tail(hs), keys \cup {key}, Append(acc, Head(hs)))
             ELSE dedup_from(Tail(hs), keys, acc)

\* dedup_hits without the `key not in dedup` test: dedup[key] = h overwrites,
\* the core keeps its first position and holds its last record
RECURSIVE dedup_overwrite(_, _)
dedup_overwrite(hs, acc) ==
  IF hs = <<>> THEN acc
  ELSE LET h == Head(hs)
           key == norm_core(h.name)
           at == {i \in 1..Len(acc) : norm_core(acc[i].name) = key}
       IN  IF key = <<>> THEN dedup_overwrite(Tail(hs), acc)
           ELSE IF at = {} THEN dedup_overwrite(Tail(hs), Append(acc, h))
           ELSE dedup_overwrite(Tail(hs),
                                [i \in 1..Len(acc) |-> IF i \in at THEN h ELSE acc[i]])

dedup_hits_lastwins(hs) == dedup_overwrite(hs, <<>>)

\* the dedup without the `key and` test: a record with an empty core is kept
RECURSIVE dedup_keep_blank(_, _, _)
dedup_keep_blank(hs, keys, acc) ==
  IF hs = <<>> THEN acc
  ELSE LET key == norm_core(Head(hs).name)
       IN  IF key \notin keys
             THEN dedup_keep_blank(Tail(hs), keys \cup {key}, Append(acc, Head(hs)))
             ELSE dedup_keep_blank(Tail(hs), keys, acc)

dedup_hits_keep_blank(hs) == dedup_keep_blank(hs, {}, <<>>)

dedup_hits(hs) == dedup_from(hs, {}, <<>>)

\* the locals of ares_search_robust before its loop; qi is the position in
\* `queries`, `called` the terms ares_query was called with, `returned` all
\* the records those calls returned, in order
sr_begin(candidate) ==
  [queries |-> search_queries(candidate), qi |-> 1, seen |-> {}, hits |-> <<>>,
   called |-> <<>>, returned |-> <<>>, failed |-> <<>>]

\* line 106
sr_term(sr) == str_strip(sr.queries[sr.qi])

\* the skip test without .lower(): if not q or q in seen
sr_skips_cased(sr) == sr_term(sr) = <<>> \/ sr_term(sr) \in sr.seen

\* line 107: if not q or q.lower() in seen: continue
sr_skips(sr) == sr_term(sr) = <<>> \/ str_lower(sr_term(sr)) \in sr.seen

sr_skip(sr) == [sr EXCEPT !.qi = @ + 1]

\* the call of ares_query failed: it raised, or it gave up with its warning
aq_failed(res) == res.status # "returned" \/ res.warnings > 0

\* sr_query that starts the hits afresh when a call has failed
sr_query_reset(sr, res) ==
  LET got == IF res.status = "returned" THEN res.out ELSE <<>>
  IN  [sr EXCEPT !.seen = @ \cup {str_lower(sr_term(sr))},
                 !.called = Append(@, sr_term(sr)),
                 !.returned = @ \o got,
                 !.failed = IF aq_failed(res) THEN Append(@, sr_term(sr)) ELSE @,
                 !.hits = IF aq_failed(res) THEN <<>> ELSE dedup_hits(@ \o got),
                 !.qi = @ + 1]

\* lines 109-120 for a call of ares_query that ended as res; `called`,
\* `returned` and `failed` record the terms queried, the records received and
\* the terms whose call failed
sr_query(sr, res) ==
  LET got == IF res.status = "returned" THEN res.out ELSE <<>>
  IN  [sr EXCEPT !.seen = @ \cup {str_lower(sr_term(sr))},
                 !.called = Append(@, sr_term(sr)),
                 !.returned = @ \o got,
                 !.failed = IF aq_failed(res) THEN Append(@, sr_term(sr)) ELSE @,
                 !.hits = dedup_hits(@ \o got),
                 !.qi = @ + 1]

\* the whole loop; reg[k] holds the outcomes of the attempts made for queries[k]
RECURSIVE sr_run(_, _)
sr_run(sr, reg) ==
  IF sr.qi > Len(sr.queries) THEN sr
  ELSE IF sr_skips(sr) THEN sr_run(sr_skip(sr), reg)
  ELSE sr_run(sr_query(sr, ares_query(reg[sr.qi])), reg)

ares_search_robust(candidate, reg) == sr_run(sr_begin(candidate), reg).hits

(***************************************************************************)
(* SIMILARITY.  The four rapidfuzz scorers are library code: what they     *)
(* return for the candidate and the names of the corpus is an input, a     *)
(* table tab[k][i], the score in 0..100 of scorer k for names[i].          *)
(***************************************************************************)
scorers == <<"token_set_ratio", "token_sort_ratio", "partial_ratio", "QRatio">>

SeqMax(f) == SetMax(Range(f))

\* process.extractOne(candidate, names, scorer=sc): the first name with the
\* best score under sc
extractOne(names, sc_scores) ==
  LET idx == SetMin({i \in 1..Len(names) : sc_scores[i] = SeqMax(sc_scores)})
  IN  [match |-> names[idx], score |-> sc_scores[idx], idx |-> idx]

\* lines 132-135, from the k-th scorer on
RECURSIVE ms_loop(_, _, _, _, _)
ms_loop(names, tab, k, max_s, best_match) ==
  IF k > Len(scorers) THEN [score |-> max_s, match |-> best_match]
  ELSE LET one == extractOne(names, tab[k])
       IN  IF one.score > max_s
             THEN ms_loop(names, tab, k + 1, one.score, one.match)
             ELSE ms_loop(names, tab, k + 1, max_s, best_match)

\* max_similarity that leaves the loop before the last scorer
RECURSIVE ms_loop_short(_, _, _, _, _)
ms_loop_short(names, tab, k, max_s, best_match) ==
  IF k >= Len(scorers) THEN [score |-> max_s, match |-> best_match]
  ELSE LET one == extractOne(names, tab[k])
       IN  IF one.score > max_s
             THEN ms_loop_short(names, tab, k + 1, one.score, one.match)
             ELSE ms_loop_short(names, tab, k + 1, max_s, best_match)

max_similarity_short(candidate, corpus, tab) ==
  LET names == [i \in 1..Len(corpus) |-> corpus[i].name]
  IN  IF names = <<>> THEN [score |-> 0, match |-> NoName]
      ELSE ms_loop_short(names, tab, 1, 0, NoName)

\* max_similarity that scores an empty corpus as a full match
max_similarity_empty100(candidate, corpus, tab) ==
  LET names == [i \in 1..Len(corpus) |-> corpus[i].name]
  IN  IF names = <<>> THEN [score |-> 100, match |-> NoName]
      ELSE ms_loop(names, tab, 1, 0, NoName)

\* lines 124-136; match NoName stands for None
max_similarity(candidate, corpus, tab) ==
  LET names == [i \in 1..Len(corpus) |-> corpus[i].name]
  IN  IF names = <<>> THEN [score |-> 0, match |-> NoName]
      ELSE ms_loop(names, tab, 1, 0, NoName)

(***************************************************************************)
(* Classification: the threshold test of both modes.                       *)
(***************************************************************************)
ThrMin == 55      \* st.slider("Práh ...", 55, 85, 70)
ThrMax == 85
ThrDefault == 70

\* the comparison turned round
is_free_flipped(sc, free_threshold) == sc > free_threshold

\* the comparison with the threshold itself counted as free
is_free_inclusive(sc, free_threshold) == sc <= free_threshold

\* lines 185 and 229: score < free_threshold
is_free(sc, free_threshold) == sc < free_threshold

\* line 229 (and the constant label of line 188)
status_of(sc, free_threshold) ==
  IF is_free(sc, free_threshold) THEN "Volne" ELSE "Podobne"

(***************************************************************************)
(* NAME GENERATION.  The completion of the language model is an input: the *)
(* call raises, or returns a text, given here as its lines.                *)
(***************************************************************************)
MinCoreLen == 4       \* if not (4 <= len(core) <= 14)
MaxCoreLen == 14
MaxNameLen == 70      \* clean.append(nm[:70])
MaxRounds == 6        \* while ... and attempts < 6

\* line 153: [line.strip("-• ").strip() for line in text.split("\n") if line.strip()]
RECURSIVE gen_names(_)
gen_names(lines) ==
  IF lines = <<>> THEN <<>>
  ELSE (IF str_strip(Head(lines)) # <<>>
          THEN <<str_strip(strip_chars(Head(lines), {"-", "bullet", " "}))>>
          ELSE <<>>)
       \o gen_names(Tail(lines))

\* lines 155-164
RECURSIVE gen_clean(_)
gen_clean(names) ==
  IF names = <<>> THEN <<>>
  ELSE LET nm == Head(names)
           core == norm_core(nm)
           keep == /\ core # <<>>
                   /\ ~\E g \in GENERIC_WORDS : g \in Range(str_split(core))
                   /\ MinCoreLen <= Len(core) /\ Len(core) <= MaxCoreLen
       IN  (IF keep THEN <<SubSeq(nm, 1, IF Len(nm) < MaxNameLen THEN Len(nm) ELSE MaxNameLen)>>
            ELSE <<>>)
           \o gen_clean(Tail(names))

\* lines 166-171
RECURSIVE gen_uniq(_, _, _)
gen_uniq(clean, seen, uniq) ==
  IF clean = <<>> THEN uniq
  ELSE LET key == norm_core(Head(clean))
       IN  IF key \notin seen
             THEN gen_uniq(Tail(clean), seen \cup {key}, Append(uniq, Head(clean)))
             ELSE gen_uniq(Tail(clean), seen, uniq)

\* lines 152-172 for a completion with these lines: uniq[:n]
generate_ai_names(lines, limit) ==
  LET uniq == gen_uniq(gen_clean(gen_names(lines)), {}, <<>>)
  IN  SubSeq(uniq, 1, IF Len(uniq) < limit THEN Len(uniq) ELSE limit)

\* line 179 without its second conjunct: the rounds are not counted
loop_continues_unbounded(count, desired, rounds) == count < desired

\* line 179: while len(results) < desired and attempts < 6
loop_continues(count, desired, rounds) == count < desired /\ rounds < MaxRounds

\* lines 192-193: if len(results) >= desired: break
loop_break(count, desired) == count >= desired

\* the report-all loop filtering like the strict one: only free rows are added
rows_append_free_only(table, r) ==
  IF r.Vysledek = "Volne" THEN Append(table, r) ELSE table

\* line 230: rows.append({...})
rows_append(table, r) == Append(table, r)

\* lines 186-191 and 230-235
Row(navrh, vysledek, shoda, skore) ==
  [Navrh |-> navrh, Vysledek |-> vysledek, Nejblizsi_shoda |-> shoda, Skore |-> skore]

(***************************************************************************)
(* State.                                                                  *)
(***************************************************************************)
VARIABLES
  fpc,    \* position of a run of one function on drawn inputs
  fin,    \* the inputs of that run
  fout    \* the function's locals and outputs so far

fvars == <<fpc, fin, fout>>

VARIABLES
  pc,          \* position of the button handler
  mode,        \* "safe" (strict filter) or "creative" (report all)
  keywords,    \* the text input
  n,           \* the "Počet výsledků" slider; `desired` in generate_safe_free_names
  free_thr,    \* the threshold slider
  attempts,    \* generate_safe_free_names: rounds started
  results,     \* generate_safe_free_names: the rows kept
  rows,        \* report-all branch: the rows
  candidates,  \* the batch of the current round
  ci,          \* position of the `for cand in candidates` loop
  cand, hits, score, match,   \* the loop body's locals
  ui,          \* what the handler showed: "warning", "error", "success", "table"
  genCalls,    \* history: calls of generate_ai_names
  regDown,     \* history: every registry attempt of the run has failed
  kept         \* history: the last candidate processed was added to results

pvars == <<pc, mode, keywords, n, free_thr, attempts, results, rows, candidates,
           ci, cand, hits, score, match, ui, genCalls, regDown, kept>>

vars == <<fvars, pvars>>

\* the handler is not running: the state of the runs of single functions
HandlerOff ==
  /\ pc = "off" /\ mode = "None" /\ keywords = <<>> /\ n = 0 /\ free_thr = 0
  /\ attempts = 0 /\ results = <<>> /\ rows = <<>> /\ candidates = <<>> /\ ci = 0
  /\ cand = <<>> /\ hits = <<>> /\ score = 0 /\ match = <<>> /\ ui = "None"
  /\ genCalls = 0 /\ regDown = TRUE /\ kept = FALSE

(***************************************************************************)
(* norm_core applied to drawn names.                                       *)
(***************************************************************************)
MaxFrags == 3

Fragments ==
  { <<"s","p","o","l">>, <<"s"," ","r"," ","o">>, <<"-">>, <<" ">>, <<".">>,
    <<"a">>, <<"s">>, <<"C_caron","Z">>, <<"A","c","m","e">> }

RECURSIVE FragStrings(_)
FragStrings(k) ==
  IF k = 0 THEN {<<>>}
  ELSE LET shorter == FragStrings(k - 1)
       IN  shorter \cup {s \o f : s \in shorter, f \in Fragments}

NormInputs == FragStrings(MaxFrags)

InitNorm ==
  /\ HandlerOff
  /\ fpc = "start"
  /\ fin \in [x : NormInputs]
  /\ fout = [once |-> <<>>, twice |-> <<>>]

ApplyNorm ==
  /\ fpc = "start"
  /\ fout' = [fout EXCEPT !.once = norm_core(fin.x)]
  /\ fpc' = "once"
  /\ UNCHANGED <<fin, pvars>>

ReapplyNorm ==
  /\ fpc = "once"
  /\ fout' = [fout EXCEPT !.twice = norm_core(fout.once)]
  /\ fpc' = "twice"
  /\ UNCHANGED <<fin, pvars>>

NextNorm == ApplyNorm \/ ReapplyNorm

SpecNorm == InitNorm /\ [][NextNorm]_vars

\* C7: norm_core(norm_core(x)) = norm_core(x) for every name x
C7_Idempotent == fpc = "twice" => fout.twice = fout.once


(***************************************************************************)
(* norm_core of a name and of the name followed by a space and one token   *)
(* of LEGAL_SUFFIXES or GENERIC_WORDS.                                     *)
(***************************************************************************)
Acme     == <<"A","c","m","e">>
Atlas    == <<"A","t","l","a","s">>
Spol_s_r == <<"s","p","o","l"," ","s"," ","r">>
Acme_Group == Acme \o <<" ","G","r","o","u","p">>

AppendNames == {<<>>, Acme, Acme_Group, Atlas, Cesky_as, Spol_s_r}

Tokens == Range(LEGAL_SUFFIXES) \cup GENERIC_WORDS

InitAppend ==
  /\ HandlerOff
  /\ fpc = "start"
  /\ fin \in [x : AppendNames, t : Tokens]
  /\ fout = <<>>

ApplyAppend ==
  /\ fpc = "start"
  /\ fout' = [plain |-> norm_core(fin.x),
              appended |-> norm_core(fin.x \o <<" ">> \o fin.t)]
  /\ fpc' = "done"
  /\ UNCHANGED <<fin, pvars>>

NextAppend == ApplyAppend

SpecAppend == InitAppend /\ [][NextAppend]_vars

\* C15: norm_core(x + ' ' + t) = norm_core(x) for every name x and every token
\* t of the legal-suffix list or of the generic-word list
C15_AppendInvariant == fpc = "done" => fout.appended = fout.plain

(***************************************************************************)
(* ares_query, attempt by attempt.                                         *)
(***************************************************************************)
InitQuery ==
  /\ HandlerOff
  /\ fpc = "running"
  /\ fin \in [obchodni_jmeno : {Cesky, Terra}]
  /\ fout = [aq |-> aq_begin, log |-> <<>>]

\* requests.get ... return out / except: sleep
HttpAttempt ==
  /\ fpc = "running"
  /\ fout.aq.attempt < MaxAttempts
  /\ \E o \in Outcomes :
       /\ fout' = [aq |-> aq_attempt(fout.aq, o), log |-> Append(fout.log, o)]
       /\ fpc' = fout'.aq.status
  /\ UNCHANGED <<fin, pvars>>

\* st.warning(...); return []
GiveUp ==
  /\ fpc = "running"
  /\ fout.aq.attempt >= MaxAttempts
  /\ fout' = [fout EXCEPT !.aq = aq_exhausted(fout.aq)]
  /\ fpc' = fout'.aq.status
  /\ UNCHANGED <<fin, pvars>>

NextQuery == HttpAttempt \/ GiveUp

SpecQuery == InitQuery /\ [][NextQuery]_vars

OkAt(log) == {k \in 1..Len(log) : log[k].kind = "ok"}

\* C2: ares_query never raises; once it has returned, either an attempt
\* succeeded, it was the last attempt made, the records are those of its body
\* and no warning was emitted, or all three attempts failed, the result is
\* empty and exactly one warning was emitted
C2_NeverRaises ==
  /\ fpc \in {"running", "returned"}
  /\ fpc = "returned" =>
       IF OkAt(fout.log) # {}
         THEN /\ OkAt(fout.log) = {Len(fout.log)}
              /\ fout.aq.gets = Len(fout.log)
              /\ fout.aq.out = parse_items(fout.log[Len(fout.log)].body)
              /\ fout.aq.warnings = 0
         ELSE /\ Len(fout.log) = MaxAttempts
              /\ fout.aq.gets = MaxAttempts
              /\ fout.aq.out = <<>>
              /\ fout.aq.warnings = 1

\* a call whose three attempts failed in three different ways and that gave up
C2_Witness ==
  /\ fpc = "returned"
  /\ Len(fout.log) = MaxAttempts
  /\ {fout.log[k].kind : k \in 1..MaxAttempts} = {"network", "status", "badbody"}
  /\ fout.aq.out = <<>>
  /\ fout.aq.warnings = 1

Failed(log) == {k \in 1..Len(log) : log[k].kind # "ok"}

\* C11: a call makes at most 3 HTTP attempts, every attempt but the last one
\* made has failed, one delay is slept after every failed attempt, the first
\* delay is the base delay of 1.2 s and every later delay is double the
\* previous one
C11_Backoff ==
  /\ fout.aq.gets = Len(fout.log)
  /\ fout.aq.gets <= MaxAttempts
  /\ \A k \in 1..Len(fout.log) - 1 : fout.log[k].kind # "ok"
  /\ Len(fout.aq.slept) = Cardinality(Failed(fout.log))
  /\ \A k \in 1..Len(fout.aq.slept) :
       fout.aq.slept[k] = IF k = 1 THEN BaseDelay ELSE 2 * fout.aq.slept[k - 1]

\* two failed attempts, two delays of 1.2 s and 2.4 s, then an answer
C11_Witness ==
  /\ fpc = "returned"
  /\ Len(fout.log) = MaxAttempts
  /\ fout.log[MaxAttempts].kind = "ok"
  /\ fout.aq.slept = <<12, 24>>
  /\ fout.aq.out # <<>>

(***************************************************************************)
(* ares_search_robust, query by query.                                     *)
(***************************************************************************)
Ces_Ky   == <<"C_caron","e","s","-","K","y">>
Terra_Cz == <<"T","e","r","r","a"," ","C","z">>

SearchCandidates == {<<>>, Cesky, Ces_Ky, Terra_Cz}

\* what the registry does during one call of ares_query: up to two failures
\* of one kind and then a body, or three failures
Fails(k, kind) == [i \in 1..k |-> [kind |-> kind, body |-> <<>>]]

QueryScripts ==
  {Fails(k, kind) \o <<[kind |-> "ok", body |-> b]>> :
     k \in 0..(MaxAttempts - 1), kind \in FailKinds, b \in Bodies}
  \cup {Fails(MaxAttempts, kind) : kind \in FailKinds}

\* st.warning (line 86) stands outside the try: when it raises, so does ares_query
aq_raised == [ares_query(Fails(MaxAttempts, "network")) EXCEPT !.status = "raised"]

SearchResults == {ares_query(script) : script \in QueryScripts} \cup {aq_raised}

InitSearch ==
  /\ HandlerOff
  /\ fpc = "for"
  /\ fin \in [candidate : SearchCandidates]
  /\ fout = sr_begin(fin.candidate)

SkipQuery ==
  /\ fpc = "for"
  /\ fout.qi <= Len(fout.queries)
  /\ sr_skips(fout)
  /\ fout' = sr_skip(fout)
  /\ UNCHANGED <<fpc, fin, pvars>>

RunQuery ==
  /\ fpc = "for"
  /\ fout.qi <= Len(fout.queries)
  /\ ~sr_skips(fout)
  /\ \E res \in SearchResults : fout' = sr_query(fout, res)
  /\ UNCHANGED <<fpc, fin, pvars>>

ReturnHits ==
  /\ fpc = "for"
  /\ fout.qi > Len(fout.queries)
  /\ fpc' = "returned"
  /\ UNCHANGED <<fin, fout, pvars>>

NextSearch == SkipQuery \/ RunQuery \/ ReturnHits

SpecSearch == InitSearch /\ [][NextSearch]_vars

Cores(recs) == [i \in 1..Len(recs) |-> norm_core(recs[i].name)]

\* the positions of recs that hold the first record of a non-empty core
FirstSeenAt(recs) ==
  {i \in 1..Len(recs) :
     /\ Cores(recs)[i] # <<>>
     /\ \A j \in 1..(i - 1) : Cores(recs)[j] # Cores(recs)[i]}

RECURSIVE PickAt(_, _, _)
PickAt(recs, at, i) ==
  IF i > Len(recs) THEN <<>>
  ELSE (IF i \in at THEN <<recs[i]>> ELSE <<>>) \o PickAt(recs, at, i + 1)

\* C5: after every accumulation step and on return, no two records of hits
\* share a normalized core, and hits holds, in order, the first record seen
\* (query order, then response order) of every core the registry returned
C5_FirstSeenWins ==
  fpc \in {"for", "returned"} =>
    /\ \A i, j \in 1..Len(fout.hits) :
         i # j => Cores(fout.hits)[i] # Cores(fout.hits)[j]
    /\ fout.hits = PickAt(fout.returned, FirstSeenAt(fout.returned), 1)

\* two queries answered: the later answer repeats a core under another
\* spelling, and the earlier record is the one kept
C5_Witness ==
  /\ fpc = "returned"
  /\ Len(fout.called) >= 2
  /\ \E i, j \in 1..Len(fout.returned) :
       /\ i < j
       /\ fout.returned[i].name = Cesky_as
       /\ fout.returned[j].name = Cesky
       /\ \A k \in 1..(i - 1) : Cores(fout.returned)[k] # Cores(fout.returned)[i]
  /\ \E k \in 1..Len(fout.hits) : fout.hits[k].name = Cesky_as
  /\ Len(fout.hits) >= 2

\* the four query terms of a candidate, <<>> standing for an absent one
FourTerms(c) ==
  LET words == str_split(norm_core(c))
  IN  << str_strip(c),
         strip_diacritics(str_strip(c)),
         IF Len(words) >= 1 THEN words[1] ELSE <<>>,
         IF Len(words) >= 2 THEN words[1] \o <<" ">> \o words[2] ELSE <<>> >>

\* the positions of the terms that are neither empty nor equal, case ignored,
\* to an earlier term
FreshAt(terms) ==
  {i \in 1..Len(terms) :
     /\ terms[i] # <<>>
     /\ \A j \in 1..(i - 1) : str_lower(terms[j]) # str_lower(terms[i])}

IsPrefix(a, b) == Len(a) <= Len(b) /\ a = SubSeq(b, 1, Len(a))

\* C6: the registry client is called at most 4 times per candidate, with the
\* (trimmed) candidate, its diacritic-stripped form, the first core token and
\* the first two core tokens, in that order, leaving out every term that is
\* empty or equal, case ignored, to a term already used
C6_QueryTerms ==
  fpc \in {"for", "returned"} =>
    LET fresh == PickAt(FourTerms(fin.candidate), FreshAt(FourTerms(fin.candidate)), 1)
    IN  /\ Len(fout.called) <= 4
        /\ IsPrefix(fout.called, fresh)
        /\ fpc = "returned" => fout.called = fresh
        /\ \A i \in 1..Len(fout.called) : fout.called[i] # <<>>
        /\ \A i, j \in 1..Len(fout.called) :
             i # j => str_lower(fout.called[i]) # str_lower(fout.called[j])

\* "Terra Cz": the diacritic-stripped form repeats the candidate and is
\* skipped, the first core token is queried second
C6_Witness ==
  /\ fpc = "returned"
  /\ fin.candidate = Terra_Cz
  /\ fout.called = <<Terra_Cz, <<"t","e","r","r","a">>>>

FrameKept ==
  /\ IsPrefix(fout.hits, fout'.hits)
  /\ Len(fout'.failed) > Len(fout.failed) =>
       fout'.hits = fout.hits /\ fout'.qi = fout.qi + 1

\* C17: a term whose registry call fails (it gives up after its retries, or
\* raises) leaves hits as it was and the loop goes on to the next term; the
\* records accumulated so far stay in hits, in their places, at every step;
\* on return every term that is neither empty nor a repetition was queried
C17_FailedTermFrame ==
  /\ [][FrameKept]_vars
  /\ [](fpc = "returned" =>
          fout.called = PickAt(FourTerms(fin.candidate), FreshAt(FourTerms(fin.candidate)), 1))

\* four terms queried; the calls of the second (given up) and the third
\* (raised) failed, and the records of the first and the fourth are returned
C17_Witness ==
  /\ fpc = "returned"
  /\ Len(fout.called) = 4
  /\ fout.failed = <<fout.called[2], fout.called[3]>>
  /\ Len(fout.hits) = 2
  /\ fout.hits[1].name = Cesky_as /\ fout.hits[2].name = Terra

\* C18: every record of hits, during the loop and on return, was returned by
\* a registry query made for the candidate and has a non-empty normalized core
C18_NonEmptyCores ==
  fpc \in {"for", "returned"} =>
    \A i \in 1..Len(fout.hits) :
      /\ \E j \in 1..Len(fout.returned) : fout.returned[j] = fout.hits[i]
      /\ norm_core(fout.hits[i].name) # <<>>

\* the registry returned "s.r.o." among other names; the list returned holds
\* the others only
C18_Witness ==
  /\ fpc = "returned"
  /\ \E j \in 1..Len(fout.returned) : fout.returned[j].name = Only_sro
  /\ \A i \in 1..Len(fout.hits) : fout.hits[i].name # Only_sro
  /\ Len(fout.hits) >= 2

(***************************************************************************)
(* The threshold test applied to drawn scores.                             *)
(***************************************************************************)
ScoreRange == 0..100

Thresholds == {ThrMin, ThrDefault, ThrMax}

InitClassify ==
  /\ HandlerOff
  /\ fpc = "start"
  /\ fin \in [s1 : ScoreRange, s2 : ScoreRange, free_thr : Thresholds]
  /\ fout = [l1 |-> "None", l2 |-> "None"]

Classify ==
  /\ fpc = "start"
  /\ fout' = [l1 |-> status_of(fin.s1, fin.free_thr),
              l2 |-> status_of(fin.s2, fin.free_thr)]
  /\ fpc' = "done"
  /\ UNCHANGED <<fin, pvars>>

NextClassify == Classify

SpecClassify == InitClassify /\ [][NextClassify]_vars

\* the severity order of the labels the code assigns
Severity(label) == IF label = "Volne" THEN 0 ELSE 1

\* C9: for a fixed threshold and scores s1 <= s2, the label of s2 is at least
\* as severe as the label of s1
C9_Monotone ==
  (fpc = "done" /\ fin.s1 <= fin.s2) => Severity(fout.l1) <= Severity(fout.l2)

\* a score below the threshold labelled free and a higher one labelled similar
C9_Witness ==
  /\ fpc = "done"
  /\ fin.s1 < fin.free_thr /\ fin.free_thr <= fin.s2
  /\ fout.l1 = "Volne" /\ fout.l2 = "Podobne"

(***************************************************************************)
(* max_similarity applied to drawn corpora and scorer tables.              *)
(***************************************************************************)
MaxCorpus == 2

ScoreValues == {0, 60, 100}

Rec(name, ico) == [name |-> name, ico |-> ico]

AllRecs == <<Rec(Cesky_as, "111"), Rec(Terra, "555"), Rec(CES_KY, "444"), Rec(Cesky, "222")>>

Corpora == {SubSeq(AllRecs, 1, k) : k \in 0..MaxCorpus}

Tables(size) == [1..Len(scorers) -> [1..size -> ScoreValues]]

InitScore ==
  /\ HandlerOff
  /\ fpc = "start"
  /\ \E corpus \in Corpora, tab \in Tables(MaxCorpus) :
       fin = [candidate |-> Cesky, corpus |-> corpus,
              tab |-> [k \in 1..Len(scorers) |-> SubSeq(tab[k], 1, Len(corpus))]]
  /\ fout = [score |-> 0, match |-> NoName]

ApplyScore ==
  /\ fpc = "start"
  /\ fout' = max_similarity(fin.candidate, fin.corpus, fin.tab)
  /\ fpc' = "done"
  /\ UNCHANGED <<fin, pvars>>

NextScore == ApplyScore

SpecScore == InitScore /\ [][NextScore]_vars

\* C10: score 0 and no match for an empty corpus; otherwise the score is the
\* maximum over the four scorers and all corpus names; always within 0..100
C10_MaxOfMetrics ==
  fpc = "done" =>
    /\ fout.score \in 0..100
    /\ IF fin.corpus = <<>>
         THEN fout.score = 0 /\ fout.match = NoName
         ELSE /\ \A k \in 1..Len(scorers), i \in 1..Len(fin.corpus) :
                   fin.tab[k][i] <= fout.score
              /\ \E k \in 1..Len(scorers), i \in 1..Len(fin.corpus) :
                   fin.tab[k][i] = fout.score

\* the maximum is reached only by the last scorer, on the second name
C10_Witness ==
  /\ fpc = "done"
  /\ Len(fin.corpus) = 2
  /\ fin.tab[4][2] = 100
  /\ \A k \in 1..Len(scorers), i \in 1..2 : <<k, i>> # <<4, 2>> => fin.tab[k][i] < 100
  /\ fout.score = 100

\* C16: for a non-empty corpus the matched name is a name of the corpus that
\* some scorer scores at the returned score, also when every score is 0
C16_MatchedName ==
  fpc = "done" /\ fin.corpus # <<>> =>
    \E k \in 1..Len(scorers), i \in 1..Len(fin.corpus) :
      fin.corpus[i].name = fout.match /\ fin.tab[k][i] = fout.score

(***************************************************************************)
(* The button handler: both generation modes.  The slider values are       *)
(* scaled down: n ranges over 1..MaxDesired.                               *)
(***************************************************************************)
MaxDesired == 2

Modes == {"safe", "creative"}

Line_dash_Cesky == <<"-", " ">> \o Cesky
Line_CESKY      == <<"C","E","S","K","Y">>
Line_cz         == <<"c","z">>
Line_abc        == <<"a","b","c">>

\* what client.chat.completions.create(...) does: it raises, or returns a text
Completions ==
  { [kind |-> "raise", lines |-> <<>>],
    [kind |-> "text", lines |-> <<Line_dash_Cesky, Ces_Ky>>],
    [kind |-> "text", lines |-> <<Cesky, Line_CESKY, Line_cz, Line_abc>>],
    [kind |-> "text", lines |-> <<Line_cz>>] }

\* what the registry does during one call of ares_search_robust: reg[k] is
\* the script of the call made for queries[k]
MaxQueries == 4

RegNames == {"down", "empty", "cesky", "mixed", "terra", "flaky"}

RegAnswers(b) == [k \in 1..MaxQueries |-> <<[kind |-> "ok", body |-> b]>>]

\* every attempt fails; every query is answered at once with one body; the
\* first query fails and the later ones are answered at the second attempt
RegOf(r) ==
  CASE r = "down"  -> [k \in 1..MaxQueries |-> Fails(MaxAttempts, "network")]
    [] r = "empty" -> RegAnswers(<<>>)
    [] r = "cesky" -> RegAnswers(Body_cesky)
    [] r = "mixed" -> RegAnswers(Body_mixed)
    [] r = "terra" -> RegAnswers(Body_terra)
    [] r = "flaky" -> [k \in 1..MaxQueries |->
                         IF k = 1 THEN Fails(MaxAttempts, "timeout")
                         ELSE Fails(1, "status") \o <<[kind |-> "ok", body |-> Body_cesky]>>]

\* what the scorers return for a candidate and a corpus: nothing is alike, or
\* one scorer finds one name alike at some level; an identical name scores 100
Levels == {ThrMin, ThrDefault, 100}

TableWith(candidate, corpus, level, k, i) ==
  [kk \in 1..Len(scorers) |->
     [ii \in 1..Len(corpus) |->
        IF corpus[ii].name = candidate THEN 100
        ELSE IF kk = k /\ ii = i THEN level ELSE 0]]

ScorerTables(candidate, corpus) ==
  {TableWith(candidate, corpus, 0, 1, 1)}
  \cup {TableWith(candidate, corpus, level, k, i) :
          level \in Levels, k \in 1..Len(scorers), i \in 1..Len(corpus)}

\* generate_ai_names(keywords, style, n) for every completion and every n,
\* as a table (@@ yields the function with its values worked out)
BatchOf ==
  [ck \in Completions \X (1..MaxDesired) |-> generate_ai_names(ck[1].lines, ck[2])]
    @@ <<>>

\* the candidates the generator can return
CandidateNames == UNION {Range(BatchOf[<<c, MaxDesired>>]) : c \in Completions}

\* ares_search_robust(cand) for every candidate and every behaviour of the registry
HitsOf ==
  [cr \in CandidateNames \X RegNames |-> ares_search_robust(cr[1], RegOf(cr[2]))]
    @@ <<>>

Init ==
  /\ fpc = "off" /\ fin = <<>> /\ fout = <<>>
  /\ pc = "button"
  /\ mode \in Modes
  /\ keywords \in {<<" ">>, <<"A","I">>}
  /\ n \in 1..MaxDesired
  /\ free_thr \in Thresholds
  /\ attempts = 0 /\ results = <<>> /\ rows = <<>> /\ candidates = <<>> /\ ci = 0
  /\ cand = <<>> /\ hits = <<>> /\ score = 0 /\ match = <<>> /\ ui = "None"
  /\ genCalls = 0 /\ regDown = TRUE /\ kept = FALSE

\* lines 210-212
RejectBlank ==
  /\ pc = "button"
  /\ str_strip(keywords) = <<>>
  /\ ui' = "warning"
  /\ pc' = "stopped"
  /\ UNCHANGED <<fvars, mode, keywords, n, free_thr, attempts, results, rows,
                 candidates, ci, cand, hits, score, match, genCalls, regDown, kept>>

\* lines 214-216, 176-177: generate_safe_free_names is entered
StartSafe ==
  /\ pc = "button"
  /\ str_strip(keywords) # <<>>
  /\ mode = "safe"
  /\ results' = <<>>
  /\ attempts' = 0
  /\ pc' = "while"
  /\ UNCHANGED <<fvars, mode, keywords, n, free_thr, rows, candidates, ci, cand,
                 hits, score, match, ui, genCalls, regDown, kept>>

\* lines 179-181: one more round; the generator raises or returns a batch
SafeRound ==
  /\ pc = "while"
  /\ loop_continues(Len(results), n, attempts)
  /\ attempts' = attempts + 1
  /\ genCalls' = genCalls + 1
  /\ \E c \in Completions :
       IF c.kind = "raise"
         THEN /\ pc' = "raised"
              /\ UNCHANGED <<candidates, ci>>
         ELSE /\ candidates' = BatchOf[<<c, n>>]
              /\ ci' = 1
              /\ pc' = IF candidates' = <<>> THEN "while" ELSE "for"
  /\ UNCHANGED <<fvars, mode, keywords, n, free_thr, results, rows, cand, hits,
                 score, match, ui, regDown, kept>>

\* lines 182-193: one candidate of the batch
SafeCandidate ==
  /\ pc = "for"
  /\ \E reg \in RegNames, c \in {candidates[ci]} :
       \E h \in {HitsOf[<<c, reg>>]} :
         \E tab \in ScorerTables(c, h) :
           \E sm \in {max_similarity(c, h, tab)} :
             LET free == is_free(sm.score, free_thr)
             IN  /\ cand' = c
                 /\ hits' = h
                 /\ score' = sm.score
                 /\ match' = sm.match
                 /\ results' = IF free
                                 THEN Append(results, Row(c, "Volne", sm.match, sm.score))
                                 ELSE results
                 /\ kept' = (Len(results') > Len(results))
                 /\ regDown' = (regDown /\ reg = "down")
                 /\ IF loop_break(Len(results'), n) \/ ci = Len(candidates)
                      THEN pc' = "while" /\ ci' = ci
                      ELSE pc' = "for" /\ ci' = ci + 1
  /\ UNCHANGED <<fvars, mode, keywords, n, free_thr, attempts, rows, candidates,
                 ui, genCalls>>

\* lines 194, 217-221: the loop is left and the results are shown
SafeReturn ==
  /\ pc = "while"
  /\ ~loop_continues(Len(results), n, attempts)
  /\ ui' = IF results = <<>> THEN "error" ELSE "success"
  /\ pc' = "done"
  /\ UNCHANGED <<fvars, mode, keywords, n, free_thr, attempts, results, rows,
                 candidates, ci, cand, hits, score, match, genCalls, regDown, kept>>

\* lines 222-225: the batch of the report-all branch
StartCreative ==
  /\ pc = "button"
  /\ str_strip(keywords) # <<>>
  /\ mode = "creative"
  /\ genCalls' = genCalls + 1
  /\ rows' = <<>>
  /\ \E c \in Completions :
       IF c.kind = "raise"
         THEN /\ pc' = "raised"
              /\ UNCHANGED <<candidates, ci, ui>>
         ELSE /\ candidates' = BatchOf[<<c, n>>]
              /\ ci' = 1
              /\ pc' = IF candidates' = <<>> THEN "done" ELSE "for_rows"
              /\ ui' = IF candidates' = <<>> THEN "table" ELSE ui
  /\ UNCHANGED <<fvars, mode, keywords, n, free_thr, attempts, results, cand,
                 hits, score, match, regDown, kept>>

\* lines 226-236: one candidate of the batch; the table after the last one
CreativeCandidate ==
  /\ pc = "for_rows"
  /\ \E reg \in RegNames, c \in {candidates[ci]} :
       \E h \in {HitsOf[<<c, reg>>]} :
         \E tab \in ScorerTables(c, h) :
           \E sm \in {max_similarity(c, h, tab)} :
                 /\ cand' = c
                 /\ hits' = h
                 /\ score' = sm.score
                 /\ match' = sm.match
                 /\ rows' = rows_append(rows, Row(c, status_of(sm.score, free_thr),
                                                  sm.match, sm.score))
                 /\ regDown' = (regDown /\ reg = "down")
                 /\ IF ci = Len(candidates)
                      THEN pc' = "done" /\ ci' = ci /\ ui' = "table"
                      ELSE pc' = "for_rows" /\ ci' = ci + 1 /\ ui' = ui
  /\ UNCHANGED <<fvars, mode, keywords, n, free_thr, attempts, results,
                 candidates, genCalls, kept>>

Next ==
  \/ RejectBlank
  \/ StartSafe \/ SafeRound \/ SafeCandidate \/ SafeReturn
  \/ StartCreative \/ CreativeCandidate

Spec == Init /\ [][Next]_vars

Finished == pc \in {"done", "raised", "stopped"}

\* a bound on the steps the handler can still make: a batch holds at most n
\* candidates, and a round is one call of the generator and its batch
StepsLeft ==
  CASE pc = "button"   -> 2 + (MaxRounds + 1) * (n + 2)
    [] pc = "while"    -> 1 + (MaxRounds - attempts) * (n + 2)
    [] pc = "for"      -> 1 + (MaxRounds - attempts) * (n + 2) + (Len(candidates) - ci + 1)
    [] pc = "for_rows" -> 1 + (Len(candidates) - ci + 1)
    [] OTHER           -> 0

StepsDecrease == StepsLeft \in Nat /\ StepsLeft' \in Nat /\ StepsLeft' < StepsLeft

\* C1: in strict-filter mode the generator is called at most 6 times and the
\* result list never holds more than `desired` entries; the loop is left in the
\* end, whatever the generator and the registry do: every step of the handler
\* lowers a natural number
C1_BoundedRounds ==
  /\ [](mode = "safe" =>
          /\ genCalls <= MaxRounds
          /\ attempts = genCalls
          /\ Len(results) <= n)
  /\ [][StepsDecrease]_vars

\* six rounds were made, every candidate scored at or above the threshold, and
\* the loop was left with nothing
C1_Witness ==
  /\ mode = "safe" /\ pc = "done"
  /\ genCalls = MaxRounds
  /\ results = <<>>
  /\ cand # <<>> /\ score >= free_thr

LastRow(table) == table[Len(table)]

FreeRow(r) ==
  r.Skore = 0 /\ r.Nejblizsi_shoda = NoName /\ r.Vysledek = "Volne"

\* C3: while the registry has failed on every attempt of every query, every
\* candidate has an empty corpus, score 0 and no matched name, is free for
\* every allowed threshold, is reported as free in report-all mode and kept in
\* strict-filter mode; the only failure that can end the run is a later call of
\* the generator
C3_RegistryDown ==
  regDown /\ cand # <<>> =>
    /\ hits = <<>> /\ score = 0 /\ match = NoName
    /\ \A t \in ThrMin..ThrMax : score < t
    /\ \A i \in 1..Len(results) : FreeRow(results[i])
    /\ \A i \in 1..Len(rows) : FreeRow(rows[i])
    /\ mode = "safe" => kept /\ results # <<>> /\ LastRow(results).Navrh = cand
    /\ mode = "creative" => rows # <<>> /\ LastRow(rows).Navrh = cand
    /\ pc = "raised" => mode = "safe" /\ genCalls > 1

\* a strict-filter run against a registry that is down, ended with two kept names
C3_Witness ==
  /\ regDown /\ mode = "safe" /\ pc = "done" /\ ui = "success"
  /\ n = 2 /\ Len(results) = 2
  /\ cand = Ces_Ky /\ kept

\* C4: at every point of a strict-filter run every entry of the result list
\* has a score strictly below free_threshold, and the candidate just scored at
\* or above the threshold was not added
C4_OnlyFreeKept ==
  mode = "safe" =>
    /\ \A i \in 1..Len(results) :
         results[i].Skore < free_thr /\ results[i].Vysledek = "Volne"
    /\ cand # <<>> /\ score >= free_thr => ~kept
    /\ cand # <<>> /\ score < free_thr =>
         kept /\ LastRow(results) = Row(cand, "Volne", match, score)

\* a candidate scored exactly the threshold and was left out, after another one
\* had been kept
C4_Witness ==
  /\ mode = "safe" /\ pc = "while"
  /\ Len(results) = 1 /\ n = 2
  /\ cand # <<>> /\ score = free_thr /\ ~kept

SameCore(candidate, corpus) ==
  \E i \in 1..Len(corpus) : norm_core(corpus[i].name) = norm_core(candidate)

\* C8: a candidate whose normalized core equals the core of an entry of the
\* retrieved corpus is labelled EXACT_MATCH in report-all mode and is not kept
\* in strict-filter mode, whatever its score and the threshold
C8_ExactMatch ==
  cand # <<>> /\ SameCore(cand, hits) =>
    /\ mode = "creative" => LastRow(rows).Vysledek = "EXACT_MATCH"
    /\ mode = "safe" => ~kept

\* C12: a strict-filter run that ends with fewer results than desired, the
\* list empty or partly filled, tells the user that the desired count was not
\* reached (the message of st.error, line 219, is the only one that says so)
C12_ShortfallReported ==
  mode = "safe" /\ pc = "done" /\ Len(results) < n => ui = "error"

\* a round of the strict-filter loop that yields no batch to read: the
\* generator raised or returned no candidates
BarrenRound == pc = "while" /\ pc' \notin {"for", "done"}

\* C13: a strict-filter round in which the generator raises or returns no
\* candidates uses up exactly one round, keeps the results collected so far
\* and goes on to the test of the next round
C13_FailedRoundConsumed ==
  [][BarrenRound =>
       /\ attempts' = attempts + 1
       /\ results' = results
       /\ pc' = "while"]_vars

\* C14: in report-all mode the generator is called exactly once, and the rows
\* are those of the candidates it returned, one each and in its order, every
\* row labelled by its score; the table shown holds a row for every candidate
C14_ReportAll ==
  mode = "creative" =>
    /\ genCalls = IF pc \in {"button", "stopped"} THEN 0 ELSE 1
    /\ pc = "for_rows" => Len(rows) = ci - 1
    /\ pc = "done" => Len(rows) = Len(candidates) /\ ui = "table"
    /\ Len(rows) <= Len(candidates)
    /\ \A i \in 1..Len(rows) :
         /\ rows[i].Navrh = candidates[i]
         /\ rows[i].Vysledek = IF rows[i].Skore < free_thr THEN "Volne" ELSE "Podobne"

\* a table of two rows, the first similar and the second free
C14_Witness ==
  /\ mode = "creative" /\ pc = "done" /\ ui = "table"
  /\ Len(rows) = 2
  /\ rows[1].Vysledek = "Podobne" /\ rows[1].Navrh = Cesky
  /\ rows[2].Vysledek = "Volne" /\ rows[2].Navrh = Ces_Ky

\* C19: the result list of a strict-filter run never holds two entries whose
\* candidates have the same normalized core
C19_DistinctCores ==
  mode = "safe" =>
    \A i, j \in 1..Len(results) :
      i # j => norm_core(results[i].Navrh) # norm_core(results[j].Navrh)

====
